---- MODULE Spec2Model ----
(***************************************************************************)
(* Basis Smart Panel integration: discovery loop, reconciliation of the    *)
(* discovered switchboards against the device registry and the per-board   *)
(* pollers (coordinators), scheduled polls and the circuit switch.         *)
(*                                                                         *)
(* Every coroutine is cut at its awaits: an action is the code that runs   *)
(* between two suspension points, with the effect of the awaited host or   *)
(* API call applied when the coroutine resumes.                            *)
(***************************************************************************)
EXTENDS Integers, Sequences, FiniteSets, TLC

\* ------------------------------------------------------------------ bounds
Serials == {"A", "B"}

\* longest list a discovery response holds (a serial may repeat)
MaxBoards == 2

\* reconciliation tasks (_async_handle_boards_change) alive at once
MaxTasks == 2

\* coordinator objects of one class alive at once for one serial
MaxCoords == 2

\* the energy a board imports while the model runs
MaxKwh == 2

\* a discovery response has at most this many sites
MaxSites == 2

\* a site of a discovery response has at most this many boards
MaxSiteBoards == 1

TaskIds == 1..MaxTasks

\* object identities: MaxCoords for each serial
CoordIds == 1..(2 * MaxCoords)

IdsOf(s) == IF s = "A" THEN 1..MaxCoords ELSE (MaxCoords + 1)..(2 * MaxCoords)

\* ------------------------------------------------------------------ values
\* a pool slot holding no object
NoObj == [free |-> TRUE]

\* DataUpdateCoordinator.data before the first refresh
NoneData == [none |-> TRUE]

\* data.get("switchboard", {}) of a response without a switchboard
EmptySnap == [empty |-> TRUE]

\* the subcircuit serial of the one subcircuit a board reports
SubSerial == "s1"

\* the step writes no "Discovered new switchboards" record
NoRecord == {}

\* no BasisAPI call is in flight
IdleApi == [pc |-> "idle"]
NoResponse == [none |-> TRUE]

\* no energy refresh is in flight
IdlePoll == [pc |-> "idle"]

\* no snapshot is under the getters
NoView == [pc |-> "none"]

VARIABLES
    remote,                    \* the cloud: per serial [exists, standby, label, kwh]
    boards_data,               \* BoardsDiscoveryCoordinator.data (NoneData or [boards |-> list])
    boards_ok,                 \* BoardsDiscoveryCoordinator.last_update_success
    known_serials,             \* BoardsDiscoveryCoordinator._known_serials
    sb,                        \* SwitchboardDataCoordinator objects, by identity
    en,                        \* EnergyStatsCoordinator objects, by identity
    switchboard_coordinators,  \* hass.data[DOMAIN][entry_id]["switchboard_coordinators"]
    energy_coordinators,       \* hass.data[DOMAIN][entry_id]["energy_coordinators"]
    registry,                  \* device registry: records per serial for this entry
    loaded,                    \* the platforms of the entry are set up
    entities,                  \* the entities the platforms hold
    setup,                     \* async_setup_entry: its position and locals
    tasks,                     \* _async_handle_boards_change tasks: position and locals
    sw,                        \* the switch service call in flight
    logged,                    \* the serials the step logs as newly discovered
    api,                       \* the BasisAPI call in flight
    epoll,                     \* the EnergyStatsCoordinator refresh in flight
    view                       \* a snapshot under the entities' property getters

vars == <<remote, boards_data, boards_ok, known_serials, sb, en,
          switchboard_coordinators, energy_coordinators, registry, loaded,
          entities, setup, tasks, sw, logged, api, epoll, view>>

\* ------------------------------------------------------------------ helpers
Range(f) == {f[i] : i \in DOMAIN f}

\* every list of at most n serials
Lists(n) == UNION {[1..k -> Serials] : k \in 0..n}

Truthy(d) == d # NoneData /\ d # EmptySnap

\* the identity of the next pair of coordinators: the smallest slot free in both
\* pools (0 when there is none); an energy coordinator takes the identity of the
\* live-state coordinator created before it in the same loop iteration
FreeId(s, pool, pool2) ==
    LET free == {c \in IdsOf(s) : pool[c] = NoObj /\ pool2[c] = NoObj}
    IN  IF free # {} THEN CHOOSE c \in free : \A d \in free : c <= d ELSE 0

\* ------------------------------------------------------------------ API, remote end
\* api.get_switchboard_data(serial), then data.get("switchboard", {})
FetchSwitchboard(rem, s) ==
    IF rem[s].exists
    THEN [serial |-> s,
          connected |-> TRUE,
          power |-> IF rem[s].standby THEN 0 ELSE 5,
          subcircuits |-> << [serial |-> SubSerial,
                              number |-> 1,
                              label |-> rem[s].label,
                              standbyLocked |-> FALSE,
                              state |-> IF rem[s].standby THEN "STANDBY" ELSE "LIVE",
                              power |-> IF rem[s].standby THEN 0 ELSE 5] >>]
    ELSE EmptySnap

\* the windows of the two range queries of an energy poll
Windows == {"today", "month"}

\* api.get_switchboard_energy_usage(serial, start_time), then
\* .get("switchboard", {}).get("totalSwitchboardEnergyUsage", {}): the energy of
\* the window that starts at start_time, the month holding what came before today
EnergyUsage(rem, s, window) ==
    [importKwh |-> IF rem[s].exists
                   THEN (IF window = "today" THEN 1 ELSE 2) + rem[s].kwh
                   ELSE 0,
     exportKwh |-> 0]

\* the dict with each window under the other's key
EnergyResultSwapped(today_usage, month_usage) ==
    [today |-> [import_kwh |-> month_usage.importKwh,
                export_kwh |-> month_usage.exportKwh],
     month |-> [import_kwh |-> today_usage.importKwh,
                export_kwh |-> today_usage.exportKwh]]

\* the dict _async_update_data returns, from the usage of the two windows
EnergyResult(today_usage, month_usage) ==
    [today |-> [import_kwh |-> today_usage.importKwh,
                export_kwh |-> today_usage.exportKwh],
     month |-> [import_kwh |-> month_usage.importKwh,
                export_kwh |-> month_usage.exportKwh]]

\* api.set_subcircuit_standby(switchboard_serial, subcircuit_serial, standby_state)
\* as the remote end applies it
SetSubcircuitStandby(rem, s, sub, standby) ==
    IF sub = SubSerial /\ rem[s].exists
    THEN [rem EXCEPT ![s].standby = standby]
    ELSE rem

\* ------------------------------------------------------------------ coordinators
NewCoordinator(s) == [serial |-> s, data |-> NoneData, ok |-> TRUE]

\* BoardsDiscoveryCoordinator.switchboard_serials
switchboard_serials(data) == IF data = NoneData THEN << >> ELSE data.boards

\* a refresh that is taken for successful and publishes nothing
NotPublished(obj, data) == [obj EXCEPT !.ok = TRUE]

\* a successful refresh publishes the fetched data
Published(obj, data) == [obj EXCEPT !.data = data, !.ok = TRUE]

\* a failed refresh that drops the data with the flag
PollFailedCleared(obj) == [obj EXCEPT !.data = NoneData, !.ok = FALSE]

\* a failed scheduled refresh keeps the data and drops last_update_success
PollFailed(obj) == [obj EXCEPT !.ok = FALSE]

\* ------------------------------------------------------------------ device registry
\* device_registry.async_get_or_create(identifiers={(DOMAIN, serial)}): upsert
GetOrCreate(reg, s) == IF reg[s] = 0 THEN [reg EXCEPT ![s] = 1] ELSE reg

\* async_get_device(identifiers) and async_remove_device(device.id) when found
RemoveDevice(reg, s) == IF reg[s] > 0 THEN [reg EXCEPT ![s] = reg[s] - 1] ELSE reg

\* the serials of the entry's device records
registry_serials(reg) == {s \in Serials : reg[s] > 0}

RECURSIVE RegisterList(_, _, _, _)
RegisterList(list, map, pool, reg) ==
    IF list = << >> THEN reg
    ELSE LET serial == Head(list)
             coordinator == map[serial]
         IN  RegisterList(Tail(list), map, pool,
                 IF coordinator # 0 /\ Truthy(pool[coordinator].data)
                 THEN GetOrCreate(reg, serial)
                 ELSE reg)

\* _async_register_switchboard_devices: for board_info in boards_coordinator.data or []
RegisterDevices(data, map, pool, reg) ==
    RegisterList(switchboard_serials(data), map, pool, reg)

RECURSIVE RemoveAll(_, _)
RemoveAll(S, reg) ==
    IF S = {} THEN reg
    ELSE LET s == CHOOSE x \in S : TRUE
         IN  RemoveAll(S \ {s}, RemoveDevice(reg, s))

\* ------------------------------------------------------------------ discovery log
\* every current serial, known or not
NewcomersAll(current_serials, known) == current_serials

\* new_serials = current_serials - self._known_serials (coordinator.py line 49)
Newcomers(current_serials, known) == current_serials \ known

\* ------------------------------------------------------------------ reconciliation sets
\* removed_serials = registry_serials - current_serials
RemovedSerials(data, reg) == registry_serials(reg) \ Range(switchboard_serials(data))

\* the difference taken the other way round
NewSerialsSwapped(data, map) ==
    {s \in Serials : map[s] # 0} \ Range(switchboard_serials(data))

\* new_serials = current_serials - coordinator_serials
NewSerials(data, map) ==
    Range(switchboard_serials(data)) \ {s \in Serials : map[s] # 0}

\* ------------------------------------------------------------------ presentation layer
\* One entity class per binding shape: a panel sensor and the connectivity sensor
\* on the live-state coordinator, an energy sensor on the energy coordinator, a
\* subcircuit sensor and the circuit switch on a subcircuit of the live-state one.
Entity(cls, s, c, sub) == [cls |-> cls, serial |-> s, coord |-> c, sub |-> sub]

LiveClasses == {"BasisPanelPowerSensor", "BasisConnectivitySensor",
                "BasisSubcircuitPowerSensor", "BasisCircuitSwitch"}

Subcircuits(data) == IF Truthy(data) THEN Range(data.subcircuits) ELSE {}

\* sensor.async_setup_entry
SensorEntities(map, emap, pool) ==
    UNION {
        {Entity("BasisPanelPowerSensor", s, map[s], "-")}
        \cup (IF emap[s] # 0
              THEN {Entity("BasisEnergyTodayImportSensor", s, emap[s], "-")}
              ELSE {})
        \cup {Entity("BasisSubcircuitPowerSensor", s, map[s], x.serial) :
                 x \in {y \in Subcircuits(pool[map[s]].data) : y.label # "spare"}}
        : s \in {r \in Serials : map[r] # 0 /\ Truthy(pool[map[r]].data)} }

\* binary_sensor.async_setup_entry
BinarySensorEntities(map, pool) ==
    {Entity("BasisConnectivitySensor", s, map[s], "-") :
        s \in {r \in Serials : map[r] # 0 /\ Truthy(pool[map[r]].data)}}

\* switch.async_setup_entry
SwitchEntities(map, pool) ==
    UNION {
        {Entity("BasisCircuitSwitch", s, map[s], x.serial) :
            x \in {y \in Subcircuits(pool[map[s]].data) :
                      ~(y.label = "spare" \/ y.standbyLocked)}}
        : s \in {r \in Serials : map[r] # 0 /\ Truthy(pool[map[r]].data)} }

\* hass.config_entries.async_forward_entry_setups(entry, PLATFORMS)
BuildEntities(map, emap, pool) ==
    BinarySensorEntities(map, pool) \cup SensorEntities(map, emap, pool)
        \cup SwitchEntities(map, pool)

\* device_info of every entity names its board, DeviceInfo(identifiers={(DOMAIN,
\* serial)}): the host upserts that device record when it adds the entity
EntityDevices(ents, reg) ==
    [s \in Serials |-> IF reg[s] = 0 /\ (\E x \in ents : x.serial = s) THEN 1 ELSE reg[s]]

\* _get_subcircuit: the subcircuit of the coordinator's data with the entity's serial
GetSubcircuit(data, sub) ==
    IF Truthy(data) /\ \E x \in Range(data.subcircuits) : x.serial = sub
    THEN CHOOSE x \in Range(data.subcircuits) : x.serial = sub
    ELSE NoneData

\* BasisPanelPowerSensor.native_value
PanelPowerValue(obj) == IF Truthy(obj.data) THEN [v |-> obj.data.power] ELSE NoneData

\* BasisSubcircuitPowerSensor.native_value
SubcircuitPowerValue(obj, sub) ==
    LET subcircuit == GetSubcircuit(obj.data, sub)
    IN  IF subcircuit # NoneData THEN [v |-> subcircuit.power] ELSE NoneData

\* BasisConnectivitySensor.is_on
ConnectivityIsOn(obj) == IF Truthy(obj.data) THEN [v |-> obj.data.connected] ELSE NoneData

\* BasisCircuitSwitch.is_on
SwitchIsOn(obj, sub) ==
    LET subcircuit == GetSubcircuit(obj.data, sub)
    IN  IF subcircuit # NoneData THEN [v |-> subcircuit.state = "LIVE"] ELSE NoneData

\* BasisCircuitSwitch.available
SwitchAvailable(obj) ==
    IF ~obj.ok THEN FALSE
    ELSE IF ~Truthy(obj.data) THEN FALSE
    ELSE obj.data.connected

\* CoordinatorEntity.available, which the sensors inherit and
\* BasisConnectivitySensor.available returns: coordinator.last_update_success
CoordinatorAvailable(obj) == obj.ok

\* the value getter of an entity bound to a live-state coordinator
ValueOf(e, obj) ==
    CASE e.cls = "BasisPanelPowerSensor" -> PanelPowerValue(obj)
      [] e.cls = "BasisSubcircuitPowerSensor" -> SubcircuitPowerValue(obj, e.sub)
      [] e.cls = "BasisConnectivitySensor" -> ConnectivityIsOn(obj)
      [] e.cls = "BasisCircuitSwitch" -> SwitchIsOn(obj, e.sub)

\* the available property of an entity bound to a live-state coordinator
AvailableOf(e, obj) ==
    IF e.cls = "BasisCircuitSwitch" THEN SwitchAvailable(obj) ELSE CoordinatorAvailable(obj)

\* ------------------------------------------------------------------ snapshot shapes
\* A live-state snapshot as the getters of one subcircuit's and one board's
\* entities see it. A nested field is "absent" (no such key), "null" (the key
\* holds None), "obj" (a dict) or, for a leaf, its value; the fields below a
\* field that is no dict are written "absent".
Raises == "RAISES"

None == "None"

Optional(values) == {"absent", "null"} \cup values

ConnectivityShapes ==
    [connectivity : {"absent", "null"}, connected : {"absent"}]
        \cup [connectivity : {"obj"}, connected : Optional({"true", "false"})]

\* the connectivity of a live-state snapshot, with the two fields the attributes
\* of the connectivity sensor are read from
ConnectivityViews ==
    [connectivity : {"absent", "null"}, connected : {"absent"},
     updatedTimestamp : {"absent"}, disconnectReason : {"absent"}]
        \cup [connectivity : {"obj"}, connected : Optional({"true", "false"}),
              updatedTimestamp : Optional({"t1"}),
              disconnectReason : Optional({"powerLoss"})]

UsageShapes ==
    [powerUsage : {"absent", "null"}, importPower : {"absent"}]
        \cup [powerUsage : {"obj"}, importPower : Optional({"3"})]

LiveStateShapes ==
    {[liveState |-> l, power |-> "absent", usage |-> u] :
        l \in {"absent", "null"},
        u \in {[powerUsage |-> "absent", importPower |-> "absent"]}}
        \cup [liveState : {"obj"}, power : Optional({"5"}), usage : UsageShapes]

ConfigShapes ==
    [config : {"absent", "null"}, label : {"absent"}]
        \cup [config : {"obj"}, label : Optional({"lights", "evCharger", "custom"})]

SubLiveShapes ==
    [liveState : {"absent", "null"}, state : {"absent"}, power : {"absent"}]
        \cup [liveState : {"obj"}, state : Optional({"LIVE", "STANDBY"}),
                                   power : Optional({"5"})]

NoSubcircuit == [config |-> [config |-> "absent", label |-> "absent"],
                 live |-> [liveState |-> "absent", state |-> "absent",
                           power |-> "absent"]]

\* the list under "subcircuits" and, in it, the subcircuit with the entity's serial
SubcircuitsShapes ==
    {[subcircuits |-> l, found |-> FALSE, sub |-> NoSubcircuit] :
        l \in {"absent", "null", "list"}}
        \cup [subcircuits : {"list"}, found : {TRUE},
              sub : [config : ConfigShapes, live : SubLiveShapes]]

NoBoard == [connectivity |-> [connectivity |-> "absent", connected |-> "absent",
                              updatedTimestamp |-> "absent",
                              disconnectReason |-> "absent"],
            live |-> [liveState |-> "absent", power |-> "absent",
                      usage |-> [powerUsage |-> "absent", importPower |-> "absent"]],
            subs |-> [subcircuits |-> "absent", found |-> FALSE, sub |-> NoSubcircuit]]

\* coordinator.data (None, {} or a snapshot) and last_update_success
Views ==
    {[pc |-> "shape", data |-> d, ok |-> ok, board |-> NoBoard] :
        d \in {"none", "empty"}, ok \in BOOLEAN}
        \cup [pc : {"shape"}, data : {"obj"}, ok : BOOLEAN,
              board : [connectivity : ConnectivityViews, live : LiveStateShapes,
                       subs : SubcircuitsShapes]]

\* _get_subcircuit: "found", None, or the TypeError of iterating None
get_subcircuit(v) ==
    IF v.data # "obj" THEN None
    ELSE IF v.board.subs.subcircuits = "absent" THEN None
    ELSE IF v.board.subs.subcircuits = "null" THEN Raises
    ELSE IF v.board.subs.found THEN "found" ELSE None

\* LABEL_NAME_MAP.get(key, default)
LABEL_NAME_MAP(key, default) ==
    LET table == [spare |-> "Spare", power |-> "Power", lights |-> "Lights",
                  range |-> "Range", oven |-> "Oven", hob |-> "Hob",
                  airCon |-> "Air Conditioning", hvac |-> "HVAC",
                  hwc |-> "Hot Water Cylinder", ufh |-> "Underfloor Heating",
                  evCharger |-> "EV Charger", pool |-> "Pool", spa |-> "Spa",
                  waterPump |-> "Water Pump", septicPump |-> "Septic Pump",
                  alarm |-> "Alarm", solar |-> "Solar"]
    IN  IF key \in DOMAIN table THEN table[key] ELSE default

\* LABEL_ICON_MAP.get(key, default)
LABEL_ICON_MAP(key, default) ==
    LET table == [spare |-> "mdi:help-circle", power |-> "mdi:flash",
                  lights |-> "mdi:lightbulb", range |-> "mdi:stove",
                  oven |-> "mdi:stove", hob |-> "mdi:pot-steam",
                  airCon |-> "mdi:snowflake", hvac |-> "mdi:air-conditioner",
                  hwc |-> "mdi:water-boiler", ufh |-> "mdi:radiator",
                  evCharger |-> "mdi:ev-station", pool |-> "mdi:pool",
                  spa |-> "mdi:hot-tub", waterPump |-> "mdi:water-pump",
                  septicPump |-> "mdi:pump", alarm |-> "mdi:alarm-light",
                  solar |-> "mdi:solar-power"]
    IN  IF key \in DOMAIN table THEN table[key] ELSE default

\* subcircuit["config"].get("label", "spare"): KeyError without "config",
\* AttributeError when it holds None
label_key(c) ==
    IF c.config # "obj" THEN Raises
    ELSE IF c.label = "absent" THEN "spare"
    ELSE IF c.label = "null" THEN None
    ELSE c.label

\* the name property of BasisCircuitSwitch and of the subcircuit sensors, without
\* its fixed parts (the number in front, the quantity behind): the friendly
\* name, or the fallback when the subcircuit is not found. The default of the
\* lookup, subcircuit["config"]["label"], is evaluated before the lookup.
subcircuit_name(v, fallback) ==
    LET subcircuit == get_subcircuit(v)
        c == v.board.subs.sub.config
    IN  IF subcircuit = Raises THEN Raises
        ELSE IF subcircuit = None THEN fallback
        ELSE IF label_key(c) = Raises THEN Raises
        ELSE IF c.label = "absent" THEN Raises
        ELSE LABEL_NAME_MAP(label_key(c), label_key(c))

\* the icon property of BasisCircuitSwitch and BasisSubcircuitPowerSensor
subcircuit_icon(v, default) ==
    LET subcircuit == get_subcircuit(v)
        c == v.board.subs.sub.config
    IN  IF subcircuit = Raises THEN Raises
        ELSE IF subcircuit = None THEN default
        ELSE IF label_key(c) = Raises THEN Raises
        ELSE LABEL_ICON_MAP(label_key(c), default)

\* BasisCircuitSwitch.is_on: subcircuit.get("liveState", {}).get("state") == "LIVE"
switch_is_on(v) ==
    LET subcircuit == get_subcircuit(v)
        l == v.board.subs.sub.live
    IN  IF subcircuit = Raises THEN Raises
        ELSE IF subcircuit = None THEN None
        ELSE IF l.liveState = "null" THEN Raises
        ELSE IF l.liveState = "obj" /\ l.state = "LIVE" THEN "True" ELSE "False"

\* connectivity.get("connected", False) of data.get("connectivity", {})
connectivity_connected(v) ==
    LET c == v.board.connectivity
    IN  IF c.connectivity = "null" THEN Raises
        ELSE IF c.connectivity = "absent" \/ c.connected = "absent" THEN "False"
        ELSE IF c.connected = "null" THEN None
        ELSE IF c.connected = "true" THEN "True" ELSE "False"

\* BasisCircuitSwitch.available
switch_available(v) ==
    IF ~v.ok THEN "False"
    ELSE IF v.data # "obj" THEN "False"
    ELSE connectivity_connected(v)

\* BasisConnectivitySensor.is_on
connectivity_is_on(v) == IF v.data # "obj" THEN None ELSE connectivity_connected(v)

\* BasisConnectivitySensor.available
connectivity_available(v) == IF v.ok THEN "True" ELSE "False"

\* BasisConnectivitySensor.extra_state_attributes
extra_state_attributes(v) ==
    LET c == v.board.connectivity
        seen == c.updatedTimestamp \notin {"absent", "null"}
        reason == c.disconnectReason \notin {"absent", "null"}
    IN  IF v.data # "obj" THEN "{}"
        ELSE IF c.connectivity = "null" THEN Raises
        ELSE IF c.connectivity = "absent" THEN "{}"
        ELSE IF seen /\ reason
        THEN "{last_seen: t1, disconnect_reason: powerLoss}"
        ELSE IF seen THEN "{last_seen: t1}"
        ELSE IF reason THEN "{disconnect_reason: powerLoss}"
        ELSE "{}"

\* BasisPanelPowerSensor.native_value
panel_power(v) ==
    LET l == v.board.live
    IN  IF v.data # "obj" THEN None
        ELSE IF l.liveState # "obj" THEN None
        ELSE IF l.power \in {"absent", "null"} THEN None
        ELSE l.power

\* BasisPanelImportPowerSensor.native_value
panel_import_power(v) ==
    LET l == v.board.live
    IN  IF v.data # "obj" THEN None
        ELSE IF l.liveState # "obj" THEN None
        ELSE IF l.usage.powerUsage = "null" THEN Raises
        ELSE IF l.usage.powerUsage = "absent" THEN None
        ELSE IF l.usage.importPower \in {"absent", "null"} THEN None
        ELSE l.usage.importPower

\* BasisSubcircuitPowerSensor.native_value
subcircuit_power(v) ==
    LET subcircuit == get_subcircuit(v)
        l == v.board.subs.sub.live
    IN  IF subcircuit = Raises THEN Raises
        ELSE IF subcircuit = None THEN None
        ELSE IF l.liveState = "null" THEN Raises
        ELSE IF l.liveState = "absent" THEN None
        ELSE IF l.power \in {"absent", "null"} THEN None
        ELSE l.power

\* what the host reads from the entities' properties
Properties(v) ==
    [switch_name |-> subcircuit_name(v, "Circuit"),
     switch_icon |-> subcircuit_icon(v, "mdi:power-socket"),
     switch_is_on |-> switch_is_on(v),
     switch_available |-> switch_available(v),
     sensor_name |-> subcircuit_name(v, "Power"),
     sensor_icon |-> subcircuit_icon(v, "mdi:flash"),
     sensor_native_value |-> subcircuit_power(v),
     panel_native_value |-> panel_power(v),
     import_native_value |-> panel_import_power(v),
     connectivity_is_on |-> connectivity_is_on(v),
     connectivity_available |-> connectivity_available(v),
     connectivity_attributes |-> extra_state_attributes(v)]

\* the host writes the state of the entities: every property is read
ReadProperties ==
    /\ view.pc = "shape"
    /\ view' = [pc |-> "read", of |-> view, out |-> Properties(view)]
    /\ logged' = NoRecord
    /\ UNCHANGED <<remote, boards_data, boards_ok, known_serials, sb, en,
                   switchboard_coordinators, energy_coordinators, registry, loaded,
                   entities, setup, tasks, sw, api, epoll>>

\* ------------------------------------------------------------------ device registration
\* What _async_register_switchboard_devices reads of a board: coordinator is
\* "absent" (not in the map) or "obj"; its data is "none", "empty" ({}) or "obj";
\* of the data, model, the subcircuits list ("empty": []), the config of its
\* first element and the version of that config.
DEFAULT_MODEL == "GEN1"

NothingRead == [model |-> "absent", subcircuits |-> "absent", config |-> "absent",
                version |-> "absent"]

SnapshotShapes ==
    [model : {"absent", "unknown", "GEN2"}, subcircuits : {"absent", "null", "empty"},
     config : {"absent"}, version : {"absent"}]
      \cup [model : {"absent", "unknown", "GEN2"}, subcircuits : {"list"},
            config : {"absent", "null"}, version : {"absent"}]
      \cup [model : {"absent", "unknown", "GEN2"}, subcircuits : {"list"},
            config : {"obj"}, version : Optional({"v2"})]

BoardViews ==
    {[coordinator |-> "absent", data |-> "none", snap |-> NothingRead],
     [coordinator |-> "obj", data |-> "none", snap |-> NothingRead],
     [coordinator |-> "obj", data |-> "empty", snap |-> NothingRead]}
      \cup [coordinator : {"obj"}, data : {"obj"}, snap : SnapshotShapes]

\* the discovered list <<"A", "B">> with what is read of each board
RegistrationViews == [pc : {"boards"}, of : [Serials -> BoardViews]]

NoDevice == [registered |-> FALSE, model |-> "-", hw_version |-> "-"]

\* line 116 and lines 119-120
device_model(snap) ==
    IF snap.model \in {"absent", "unknown"} THEN DEFAULT_MODEL ELSE snap.model

\* line 117: switchboard_data.get("subcircuits", [{}])[0].get("config", {})
\*               .get("version", "Unknown")
subcircuits_version(snap) ==
    IF snap.subcircuits = "absent" THEN "Unknown"
    ELSE IF snap.subcircuits \in {"null", "empty"} THEN Raises
    ELSE IF snap.config = "absent" THEN "Unknown"
    ELSE IF snap.config = "null" THEN Raises
    ELSE IF snap.version = "absent" THEN "Unknown"
    ELSE IF snap.version = "null" THEN None
    ELSE snap.version

RECURSIVE register_switchboard_devices(_, _, _)
\* _async_register_switchboard_devices over the rest of the list, lines 110-131:
\* the devices registered so far and whether the loop has raised
register_switchboard_devices(list, of, devices) ==
    IF list = << >> THEN [raised |-> FALSE, devices |-> devices]
    ELSE LET serial == Head(list)
             board == of[serial]
         IN  IF ~(board.coordinator = "obj" /\ board.data = "obj")
             THEN register_switchboard_devices(Tail(list), of, devices)
             ELSE IF subcircuits_version(board.snap) = Raises
             THEN [raised |-> TRUE, devices |-> devices]
             ELSE register_switchboard_devices(Tail(list), of,
                      [devices EXCEPT ![serial] =
                          [registered |-> TRUE,
                           model |-> device_model(board.snap),
                           hw_version |-> subcircuits_version(board.snap)]])

\* the registration runs on the discovered list
RegisterRun ==
    /\ view.pc = "boards"
    /\ view' = [pc |-> "registered", of |-> view.of,
                out |-> register_switchboard_devices(<<"A", "B">>, view.of,
                                                     [s \in Serials |-> NoDevice])]
    /\ logged' = NoRecord
    /\ UNCHANGED <<remote, boards_data, boards_ok, known_serials, sb, en,
                   switchboard_coordinators, energy_coordinators, registry, loaded,
                   entities, setup, tasks, sw, api, epoll>>

\* ------------------------------------------------------------------ API client
\* the four operations of BasisAPI with their arguments
ApiCalls ==
    {[op |-> "get_available_switchboards", serial |-> "-", arg |-> "-"]}
        \cup [op : {"get_switchboard_data"}, serial : Serials, arg : {"-"}]
        \cup [op : {"get_switchboard_energy_usage"}, serial : Serials, arg : Windows]
        \cup [op : {"set_subcircuit_standby"}, serial : Serials,
              arg : {"activate", "deactivate"}]

\* the boards of one site in a discovery response: serial ("absent": no such
\* key) and connectivity
BoardShapes == [serial : {"absent"} \cup Serials, connectivity : ConnectivityShapes]

\* every list of at most n elements of S
ListsOf(S, n) == UNION {[1..k -> S] : k \in 0..n}

\* the sites of a discovery response: id and switchboards ("absent": no such
\* key, "null": the key with null, "list": the list in boards)
SiteShapes ==
    [id : {"absent", "s1"}, switchboards : {"absent", "null"}, boards : {<< >>}]
        \cup [id : {"absent", "s1"}, switchboards : {"list"},
              boards : ListsOf(BoardShapes, MaxSiteBoards)]

\* the results execute_async can return for the discovery query: the outer
\* "sites" object, its "sites" list and the items of the list
Responses ==
    [sites : {"absent", "null"}, list : {"absent"}, items : {<< >>}]
        \cup [sites : {"obj"}, list : {"absent", "null"}, items : {<< >>}]
        \cup [sites : {"obj"}, list : {"list"}, items : ListsOf(SiteShapes, MaxSites)]

\* a well-formed site of the account: one site with the boards that exist
SiteOf(rem) ==
    LET present == {s \in Serials : rem[s].exists}
        board(s) == [serial |-> s,
                     connectivity |-> [connectivity |-> "obj", connected |-> "true"]]
        boards == IF present = Serials THEN <<board("A"), board("B")>>
                  ELSE IF present = {} THEN << >>
                  ELSE <<board(CHOOSE s \in present : TRUE)>>
    IN  [id |-> "s1", switchboards |-> "list", boards |-> boards]

\* what the remote end answers to the request of a call
Response(rem, call) ==
    CASE call.op = "get_available_switchboards" ->
             [sites |-> "obj", list |-> "list", items |-> <<SiteOf(rem)>>]
      [] call.op = "get_switchboard_data" ->
             [switchboard |-> FetchSwitchboard(rem, call.serial)]
      [] call.op = "get_switchboard_energy_usage" ->
             [switchboard |->
                 [totalSwitchboardEnergyUsage |-> EnergyUsage(rem, call.serial, call.arg)]]
      [] call.op = "set_subcircuit_standby" ->
             [updateSubcircuitStandbyState |->
                 [serial |-> SubSerial,
                  state |-> IF call.arg = "activate" THEN "STANDBY" ELSE "LIVE"]]

\* board.get("connectivity", {}).get("connected", False)
BoardConnected(c) ==
    IF c.connectivity = "null" THEN Raises
    ELSE IF c.connectivity = "absent" \/ c.connected = "absent" THEN "False"
    ELSE IF c.connected = "null" THEN None
    ELSE IF c.connected = "true" THEN "True" ELSE "False"

\* site.get("id")
SiteId(site) == IF site.id \in {"absent", "null"} THEN None ELSE site.id

RECURSIVE FlattenBoards(_, _)
\* for board in site.get("switchboards", []): switchboards.append({...})
FlattenBoards(boards, site_id) ==
    IF boards = << >> THEN [raised |-> FALSE, list |-> << >>]
    ELSE LET board == Head(boards)
             rest == FlattenBoards(Tail(boards), site_id)
         IN  IF board.serial = "absent" \/ BoardConnected(board.connectivity) = Raises
                \/ rest.raised
             THEN [raised |-> TRUE, list |-> << >>]
             ELSE [raised |-> FALSE,
                   list |-> <<[serial |-> board.serial, site_id |-> site_id,
                               connected |-> BoardConnected(board.connectivity)]>>
                            \o rest.list]

RECURSIVE FlattenSites(_)
\* for site in result.get("sites", {}).get("sites", [])
FlattenSites(sites) ==
    IF sites = << >> THEN [raised |-> FALSE, list |-> << >>]
    ELSE LET site == Head(sites)
             here == IF site.switchboards = "absent"
                     THEN [raised |-> FALSE, list |-> << >>]
                     ELSE IF site.switchboards = "null"
                     THEN [raised |-> TRUE, list |-> << >>]
                     ELSE FlattenBoards(site.boards, SiteId(site))
             rest == FlattenSites(Tail(sites))
         IN  IF here.raised \/ rest.raised THEN [raised |-> TRUE, list |-> << >>]
             ELSE [raised |-> FALSE, list |-> here.list \o rest.list]

\* get_available_switchboards, lines 90-102, on the result of the query
Flatten(result) ==
    IF result.sites = "absent" THEN [raised |-> FALSE, list |-> << >>]
    ELSE IF result.sites = "null" THEN [raised |-> TRUE, list |-> << >>]
    ELSE IF result.list = "absent" THEN [raised |-> FALSE, list |-> << >>]
    ELSE IF result.list = "null" THEN [raised |-> TRUE, list |-> << >>]
    ELSE FlattenSites(result.items)

\* _create_client is entered: the token is asked for (line 53)
Entered(call) == [pc |-> "token", call |-> call, tokens |-> 1, requests |-> 0,
                  response |-> NoResponse, result |-> None, error |-> None]

\* client.execute_async(...) is awaited: one request goes out
Executed(a) == [a EXCEPT !.pc = "request", !.requests = a.requests + 1]

\* a failed request that is sent once more
RaisedRetried(a, at) ==
    IF at = "request" /\ a.requests < 2
    THEN [a EXCEPT !.requests = a.requests + 1]
    ELSE [a EXCEPT !.pc = "raised", !.error = at]

\* the exception of the token, of the request or of the parsing propagates
Raised(a, at) == [a EXCEPT !.pc = "raised", !.error = at]

\* the operation returns to its caller
Returned(a, result) == [a EXCEPT !.pc = "returned", !.result = result]

\* an operation of BasisAPI is called: up to the await of the access token
ApiCall(call) ==
    /\ api.pc \in {"idle", "returned", "raised"}
    /\ api' = Entered(call)
    /\ logged' = NoRecord
    /\ UNCHANGED <<remote, boards_data, boards_ok, known_serials, sb, en,
                   switchboard_coordinators, energy_coordinators, registry, loaded,
                   entities, setup, tasks, sw, epoll, view>>

\* async_get_access_token returns the token, or raises
TokenReturn(ok) ==
    /\ api.pc = "token"
    /\ api' = IF ok THEN Executed(api) ELSE Raised(api, "token")
    /\ logged' = NoRecord
    /\ UNCHANGED <<remote, boards_data, boards_ok, known_serials, sb, en,
                   switchboard_coordinators, energy_coordinators, registry, loaded,
                   entities, setup, tasks, sw, epoll, view>>

\* client.execute_async returns the response, or raises; the discovery flattens
\* its response, the other operations return theirs as it is
RequestReturn(ok, response) ==
    /\ api.pc = "request"
    /\ api' = LET got == [api EXCEPT !.response = response]
              IN  IF ~ok THEN Raised(api, "request")
                  ELSE IF api.call.op # "get_available_switchboards"
                  THEN Returned(got, response)
                  ELSE IF Flatten(response).raised THEN Raised(got, "response")
                  ELSE Returned(got, Flatten(response).list)
    /\ remote' = IF ok /\ api.call.op = "set_subcircuit_standby"
                 THEN SetSubcircuitStandby(remote, api.call.serial, SubSerial,
                                           api.call.arg = "activate")
                 ELSE remote
    /\ logged' = NoRecord
    /\ UNCHANGED <<boards_data, boards_ok, known_serials, sb, en,
                   switchboard_coordinators, energy_coordinators, registry, loaded,
                   entities, setup, tasks, sw, epoll, view>>

\* ------------------------------------------------------------------ object lifetime
NoEntity == Entity("-", "-", 0, "-")

\* no answer of the query for today is held
NoUsage == [none |-> TRUE]

FreeTask == [pc |-> "free", cur |-> {}, removed |-> {}, new |-> {}, todo |-> {},
             serial |-> "-", c |-> 0, e |-> 0, today_usage |-> NoUsage]

IdleSetup == [pc |-> "first_refresh", todo |-> << >>, serial |-> "-", c |-> 0, e |-> 0,
              today_usage |-> NoUsage]

IdleSwitch == [pc |-> "idle", ent |-> NoEntity, standby |-> FALSE]

\* the live-state coordinators something still refers to
SbLive(map, ents, stp, tsks, swr) ==
    {map[s] : s \in Serials}
        \cup {x.coord : x \in {y \in ents : y.cls \in LiveClasses}}
        \cup {stp.c} \cup {tsks[t].c : t \in TaskIds}
        \cup (IF swr.pc \in {"mutating", "refreshing"} THEN {swr.ent.coord} ELSE {})

\* the energy coordinators something still refers to
EnLive(emap, ents, stp, tsks) ==
    {emap[s] : s \in Serials}
        \cup {x.coord : x \in {y \in ents : y.cls \notin LiveClasses}}
        \cup {stp.e} \cup {tsks[t].e : t \in TaskIds}

\* an object nothing refers to is gone
Collect(pool, live) == [c \in CoordIds |-> IF c \in live THEN pool[c] ELSE NoObj]

\* a coordinator with listeners (entities) is the one the host polls on schedule
HasListeners(c) == \E x \in entities : x.cls \in LiveClasses /\ x.coord = c

Pop(map, S) == [s \in Serials |-> IF s \in S THEN 0 ELSE map[s]]

\* ------------------------------------------------------------------ initial state
\* the state async_setup_entry starts from
Constructed ==
    /\ remote \in {r \in [Serials -> [exists : BOOLEAN, standby : {FALSE},
                                       label : {"lights"}, kwh : {0}]] :
                      r["A"].exists}
    /\ boards_data = NoneData
    /\ boards_ok = TRUE
    /\ known_serials = {}
    /\ sb = [c \in CoordIds |-> NoObj]
    /\ en = [c \in CoordIds |-> NoObj]
    /\ switchboard_coordinators = [s \in Serials |-> 0]
    /\ energy_coordinators = [s \in Serials |-> 0]
    /\ registry = [s \in Serials |-> 0]
    /\ loaded = FALSE
    /\ entities = {}
    /\ setup = IdleSetup
    /\ tasks = [t \in TaskIds |-> FreeTask]
    /\ sw = IdleSwitch
    /\ logged = NoRecord
    /\ api = IdleApi
    /\ epoll = IdlePoll

Init == Constructed /\ view = NoView

\* the same, with a snapshot of any shape under the getters
InitGetters == Constructed /\ view \in Views

\* ------------------------------------------------------------------ async_setup_entry
RECURSIVE SkipKnown(_, _)
\* for serial in switchboard_serials: if serial not in switchboard_coordinators
SkipKnown(todo, map) ==
    IF todo = << >> THEN << >>
    ELSE IF map[Head(todo)] = 0 THEN todo
    ELSE SkipKnown(Tail(todo), map)

\* _async_setup_switchboard_coordinators from the head of its loop, up to the next
\* await: either the first refresh of the next board's coordinator, or (the loop
\* over) _async_register_switchboard_devices and the await of the platform setup
SetupLoop(todo, map1, sb1) ==
    LET rest == SkipKnown(todo, map1)
        id == IF rest # << >> THEN FreeId(Head(rest), sb1, en') ELSE 0
    IN  IF rest # << >>
        THEN /\ id # 0
             /\ setup' = [pc |-> "fetch_sb", todo |-> Tail(rest), serial |-> Head(rest),
                          c |-> id, e |-> 0, today_usage |-> NoUsage]
             /\ registry' = registry
             /\ sb' = Collect([sb1 EXCEPT ![id] = NewCoordinator(Head(rest))],
                              SbLive(map1, entities, setup', tasks, sw))
        ELSE /\ setup' = [IdleSetup EXCEPT !.pc = "forward"]
             /\ registry' = RegisterDevices(boards_data', map1, sb1, registry)
             /\ sb' = Collect(sb1, SbLive(map1, entities, setup', tasks, sw))

\* boards_coordinator.async_config_entry_first_refresh() returns or raises
SetupFirstRefresh(ok, list) ==
    /\ setup.pc = "first_refresh"
    /\ UNCHANGED <<view, api, epoll>>
    /\ UNCHANGED <<remote, boards_ok, en, switchboard_coordinators, energy_coordinators,
                   loaded, entities, tasks, sw>>
    /\ IF ok
       THEN /\ boards_data' = [boards |-> list]
            /\ logged' = Newcomers(Range(list), known_serials)
            /\ known_serials' = Range(list)
            /\ SetupLoop(list, switchboard_coordinators, sb)
       ELSE /\ setup' = [IdleSetup EXCEPT !.pc = "failed"]
            /\ logged' = NoRecord
            /\ UNCHANGED <<boards_data, known_serials, registry, sb>>

\* coordinator.async_config_entry_first_refresh() returns or raises (line 90)
SetupFetchSb(ok) ==
    /\ setup.pc = "fetch_sb"
    /\ UNCHANGED <<view, api, epoll>>
    /\ logged' = NoRecord
    /\ UNCHANGED <<remote, boards_data, boards_ok, known_serials, energy_coordinators,
                   registry, loaded, entities, tasks, sw>>
    /\ IF ok
       THEN /\ switchboard_coordinators' =
                   [switchboard_coordinators EXCEPT ![setup.serial] = setup.c]
            /\ setup' = [setup EXCEPT !.pc = "fetch_today", !.c = 0, !.e = setup.c]
            /\ sb' = [sb EXCEPT ![setup.c] =
                         Published(sb[setup.c], FetchSwitchboard(remote, setup.serial))]
            /\ en' = [en EXCEPT ![setup.c] = NewCoordinator(setup.serial)]
       ELSE /\ setup' = [IdleSetup EXCEPT !.pc = "failed"]
            /\ UNCHANGED <<switchboard_coordinators, en>>
            /\ sb' = Collect(sb, SbLive(switchboard_coordinators, entities, setup', tasks, sw))

\* the first refresh of the energy coordinator (line 96) up to its second await:
\* the query for today returns (coordinator.py lines 130-139), or raises
SetupFetchEnToday(ok) ==
    /\ setup.pc = "fetch_today"
    /\ UNCHANGED <<view, api, epoll>>
    /\ logged' = NoRecord
    /\ UNCHANGED <<remote, boards_data, boards_ok, known_serials, switchboard_coordinators,
                   energy_coordinators, registry, sb, loaded, entities, tasks, sw>>
    /\ IF ok
       THEN /\ setup' = [setup EXCEPT
                            !.pc = "fetch_en",
                            !.today_usage = EnergyUsage(remote, setup.serial, "today")]
            /\ en' = en
       ELSE /\ setup' = [IdleSetup EXCEPT !.pc = "failed"]
            /\ en' = Collect(en, EnLive(energy_coordinators, entities, setup', tasks))

\* energy_coordinator.async_config_entry_first_refresh() returns or raises (line
\* 96): the query for the month returns or raises
SetupFetchEn(ok) ==
    /\ setup.pc = "fetch_en"
    /\ UNCHANGED <<view, api, epoll>>
    /\ logged' = NoRecord
    /\ UNCHANGED <<remote, boards_data, boards_ok, known_serials, switchboard_coordinators,
                   loaded, entities, tasks, sw>>
    /\ IF ok
       THEN /\ energy_coordinators' =
                   [energy_coordinators EXCEPT ![setup.serial] = setup.e]
            /\ en' = [en EXCEPT ![setup.e] =
                         Published(en[setup.e],
                                   EnergyResult(setup.today_usage,
                                                EnergyUsage(remote, setup.serial,
                                                            "month")))]
            /\ SetupLoop(setup.todo, switchboard_coordinators, sb)
       ELSE /\ setup' = [IdleSetup EXCEPT !.pc = "failed"]
            /\ UNCHANGED <<energy_coordinators, registry, sb>>
            /\ en' = Collect(en, EnLive(energy_coordinators, entities, setup', tasks))

\* async_forward_entry_setups returns; the discovery listener is added
SetupForward ==
    /\ setup.pc = "forward"
    /\ UNCHANGED <<view, api, epoll>>
    /\ logged' = NoRecord
    /\ entities' = BuildEntities(switchboard_coordinators, energy_coordinators, sb)
    /\ registry' = EntityDevices(entities', registry)
    /\ loaded' = TRUE
    /\ setup' = [IdleSetup EXCEPT !.pc = "ready"]
    /\ UNCHANGED <<remote, boards_data, boards_ok, known_serials, sb, en,
                   switchboard_coordinators, energy_coordinators, tasks, sw>>

\* the host sets a not-ready entry up again: hass.data[DOMAIN][entry_id] is
\* replaced by fresh maps and a new discovery coordinator is created
SetupRetry ==
    /\ setup.pc = "failed"
    /\ UNCHANGED <<view, api, epoll>>
    /\ logged' = NoRecord
    /\ setup' = IdleSetup
    /\ boards_data' = NoneData
    /\ boards_ok' = TRUE
    /\ known_serials' = {}
    /\ switchboard_coordinators' = [s \in Serials |-> 0]
    /\ energy_coordinators' = [s \in Serials |-> 0]
    /\ sb' = Collect(sb, SbLive(switchboard_coordinators', entities, setup', tasks, sw))
    /\ en' = Collect(en, EnLive(energy_coordinators', entities, setup', tasks))
    /\ UNCHANGED <<remote, registry, loaded, entities, tasks, sw>>

\* ------------------------------------------------------------------ discovery loop
\* the lowest free task slot (0 when MaxTasks passes are alive)
FreeTaskId ==
    IF \E t \in TaskIds : tasks[t].pc = "free"
    THEN CHOOSE t \in TaskIds : tasks[t].pc = "free"
                                /\ \A u \in TaskIds : tasks[u].pc = "free" => t <= u
    ELSE 0

\* _async_on_boards_update: hass.async_create_task(_async_handle_boards_change(...))
Notify(t) == [tasks EXCEPT ![t] = [FreeTask EXCEPT !.pc = "start"]]

\* the task a notification created has run to its first await before the next
\* scheduled tick of the discovery coordinator
Started == \A t \in TaskIds : tasks[t].pc # "start"

\* the listener async_setup_entry added is attached: the entry is set up and its
\* unload, if any, has not returned (entry.async_on_unload runs after it)
Listening == setup.pc \in {"ready", "unloading"}

\* the entry is being unloaded or is unloaded: the host sets up no platform for it
NotLoaded == setup.pc \in {"unloading", "unloaded"}

\* BoardsDiscoveryCoordinator._async_update_data returns: a scheduled tick succeeds
DiscoveryTick(list) ==
    /\ Listening
    /\ UNCHANGED <<view, api, epoll>>
    /\ Started
    /\ FreeTaskId # 0
    /\ boards_data' = [boards |-> list]
    /\ logged' = Newcomers(Range(list), known_serials)
    /\ known_serials' = Range(list)
    /\ boards_ok' = TRUE
    /\ tasks' = Notify(FreeTaskId)
    /\ UNCHANGED <<remote, sb, en, switchboard_coordinators, energy_coordinators,
                   registry, loaded, entities, setup, sw>>

\* a scheduled tick fails: the data and the known set stay, and the listeners are
\* told when last_update_success changes
DiscoveryFail ==
    /\ Listening
    /\ UNCHANGED <<view, api, epoll>>
    /\ logged' = NoRecord
    /\ Started
    /\ boards_ok
    /\ FreeTaskId # 0
    /\ boards_ok' = FALSE
    /\ tasks' = Notify(FreeTaskId)
    /\ UNCHANGED <<remote, boards_data, known_serials, sb, en, switchboard_coordinators,
                   energy_coordinators, registry, loaded, entities, setup, sw>>

\* ------------------------------------------------------------------ _async_handle_boards_change
\* lines 141-164: the sets are computed; the pass returns, or awaits the unload
Start(t) ==
    /\ tasks[t].pc = "start"
    /\ UNCHANGED <<view, api, epoll>>
    /\ logged' = NoRecord
    /\ LET removed_serials == RemovedSerials(boards_data, registry)
           new_serials == NewSerials(boards_data, switchboard_coordinators)
       IN  IF setup.pc = "unloaded"
           THEN \* hass.data[DOMAIN][entry.entry_id] is popped: KeyError, line 141
                /\ tasks' = [tasks EXCEPT ![t] = FreeTask]
           ELSE IF new_serials = {} /\ removed_serials = {}
           THEN /\ tasks' = [tasks EXCEPT ![t] = FreeTask]
           ELSE /\ tasks' = [tasks EXCEPT ![t] =
                       [FreeTask EXCEPT !.pc = "unload",
                                        !.cur = Range(switchboard_serials(boards_data)),
                                        !.removed = removed_serials,
                                        !.new = new_serials,
                                        !.todo = new_serials]]
    /\ UNCHANGED <<remote, boards_data, boards_ok, known_serials, sb, en,
                   switchboard_coordinators, energy_coordinators, registry, loaded,
                   entities, setup, sw>>

\* lines 187-190 for the next new serial, or lines 198-202 when none is left:
\* the task awaits a first refresh, or registers the devices and awaits the setup
PassLoop(t, todo, map1, sb1, reg1, ents1) ==
    IF todo # {}
    THEN \E s \in todo :
           LET id == FreeId(s, sb1, en')
           IN  /\ id # 0
               /\ tasks' = [tasks EXCEPT ![t].pc = "fetch_sb", ![t].todo = todo \ {s},
                                         ![t].serial = s, ![t].c = id, ![t].e = 0,
                                         ![t].today_usage = NoUsage]
               /\ registry' = reg1
               /\ sb' = Collect([sb1 EXCEPT ![id] = NewCoordinator(s)],
                                SbLive(map1, ents1, setup, tasks', sw))
    ELSE /\ tasks' = [tasks EXCEPT ![t].pc = "forward", ![t].serial = "-",
                                   ![t].c = 0, ![t].e = 0,
                                   ![t].today_usage = NoUsage]
         /\ registry' = reg1
         /\ sb' = Collect(sb1, SbLive(map1, ents1, setup, tasks', sw))

\* lines 164-190: async_unload_platforms returns, the removed boards are dropped
Unloaded(t) ==
    /\ tasks[t].pc = "unload"
    /\ UNCHANGED <<view, api, epoll>>
    /\ logged' = NoRecord
    /\ loaded' = FALSE
    /\ entities' = {}
    /\ switchboard_coordinators' = Pop(switchboard_coordinators, tasks[t].removed)
    /\ energy_coordinators' = Pop(energy_coordinators, tasks[t].removed)
    /\ en' = Collect(en, EnLive(energy_coordinators', entities', setup, tasks))
    /\ PassLoop(t, tasks[t].todo, switchboard_coordinators', sb,
                RemoveAll(tasks[t].removed, registry), entities')
    /\ UNCHANGED <<remote, boards_data, boards_ok, known_serials, setup, sw>>

\* lines 190-195: the live-state coordinator's first refresh returns or raises
FetchSb(t, ok) ==
    /\ tasks[t].pc = "fetch_sb"
    /\ UNCHANGED <<view, api, epoll>>
    /\ logged' = NoRecord
    /\ UNCHANGED <<remote, boards_data, boards_ok, known_serials, energy_coordinators,
                   registry, loaded, entities, setup, sw>>
    /\ IF ok
       THEN /\ switchboard_coordinators' =
                   [switchboard_coordinators EXCEPT ![tasks[t].serial] = tasks[t].c]
            /\ tasks' = [tasks EXCEPT ![t].pc = "fetch_today", ![t].c = 0,
                                      ![t].e = tasks[t].c]
            /\ sb' = Collect([sb EXCEPT ![tasks[t].c] =
                                Published(sb[tasks[t].c],
                                          FetchSwitchboard(remote, tasks[t].serial))],
                             SbLive(switchboard_coordinators', entities, setup, tasks', sw))
            /\ en' = [en EXCEPT ![tasks[t].c] = NewCoordinator(tasks[t].serial)]
       ELSE /\ tasks' = [tasks EXCEPT ![t] = FreeTask]
            /\ UNCHANGED <<switchboard_coordinators, en>>
            /\ sb' = Collect(sb, SbLive(switchboard_coordinators, entities, setup, tasks', sw))

\* the first refresh of the energy coordinator (line 195) up to its second
\* await: the query for today returns (coordinator.py lines 130-139), or raises
FetchEnToday(t, ok) ==
    /\ tasks[t].pc = "fetch_today"
    /\ UNCHANGED <<view, api, epoll>>
    /\ logged' = NoRecord
    /\ UNCHANGED <<remote, boards_data, boards_ok, known_serials, switchboard_coordinators,
                   energy_coordinators, registry, sb, loaded, entities, setup, sw>>
    /\ IF ok
       THEN /\ tasks' = [tasks EXCEPT
                            ![t].pc = "fetch_en",
                            ![t].today_usage =
                                EnergyUsage(remote, tasks[t].serial, "today")]
            /\ en' = en
       ELSE /\ tasks' = [tasks EXCEPT ![t] = FreeTask]
            /\ en' = Collect(en, EnLive(energy_coordinators, entities, setup, tasks'))

\* lines 195-202: the energy coordinator's first refresh returns (the query for
\* the month has returned) or raises. After the last new board the devices are
\* registered, which reads hass.data[DOMAIN][entry.entry_id] (line 108): a
\* KeyError that ends the pass once async_unload_entry has popped it
FetchEn(t, ok) ==
    /\ tasks[t].pc = "fetch_en"
    /\ UNCHANGED <<view, api, epoll>>
    /\ logged' = NoRecord
    /\ UNCHANGED <<remote, boards_data, boards_ok, known_serials, switchboard_coordinators,
                   loaded, entities, setup, sw>>
    /\ IF ok
       THEN /\ energy_coordinators' =
                   [energy_coordinators EXCEPT ![tasks[t].serial] = tasks[t].e]
            /\ en' = Collect([en EXCEPT ![tasks[t].e] =
                                Published(en[tasks[t].e],
                                          EnergyResult(tasks[t].today_usage,
                                                       EnergyUsage(remote,
                                                                   tasks[t].serial,
                                                                   "month")))],
                             EnLive(energy_coordinators', entities, setup,
                                    [tasks EXCEPT ![t].e = 0]))
            /\ IF tasks[t].todo = {} /\ setup.pc = "unloaded"
               THEN /\ tasks' = [tasks EXCEPT ![t] = FreeTask]
                    /\ registry' = registry
                    /\ sb' = Collect(sb, SbLive(switchboard_coordinators, entities,
                                                setup, tasks', sw))
               ELSE PassLoop(t, tasks[t].todo, switchboard_coordinators, sb,
                             IF tasks[t].todo = {}
                             THEN RegisterDevices(boards_data, switchboard_coordinators,
                                                  sb, registry)
                             ELSE registry,
                             entities)
       ELSE /\ tasks' = [tasks EXCEPT ![t] = FreeTask]
            /\ UNCHANGED <<energy_coordinators, registry, sb>>
            /\ en' = Collect(en, EnLive(energy_coordinators, entities, setup, tasks'))

\* line 202: async_forward_entry_setups returns; the host sets up a platform
\* that is not set up, rejects the setup of one that already is, and refuses
\* (raises) for an entry that is not loaded
Forward(t) ==
    /\ tasks[t].pc = "forward"
    /\ UNCHANGED <<view, api, epoll>>
    /\ logged' = NoRecord
    /\ entities' = IF loaded \/ NotLoaded THEN entities
                   ELSE BuildEntities(switchboard_coordinators, energy_coordinators, sb)
    /\ registry' = EntityDevices(entities', registry)
    /\ loaded' = (loaded \/ ~NotLoaded)
    /\ tasks' = [tasks EXCEPT ![t] = FreeTask]
    /\ UNCHANGED <<remote, boards_data, boards_ok, known_serials, sb, en,
                   switchboard_coordinators, energy_coordinators, setup, sw>>

\* ------------------------------------------------------------------ async_unload_entry
\* line 207 up to its await: the host unloads the entry and the platforms that
\* are set up are torn down. (With the platforms not set up, or a pass of the
\* reconciliation unloading them, unload_ok is False and the entry stays as is.)
UnloadEntryCall ==
    /\ setup.pc = "ready"
    /\ loaded
    /\ \A t \in TaskIds : tasks[t].pc # "unload"
    /\ setup' = [setup EXCEPT !.pc = "unloading"]
    /\ loaded' = FALSE
    /\ entities' = {}
    /\ sb' = Collect(sb, SbLive(switchboard_coordinators, entities', setup', tasks, sw))
    /\ en' = Collect(en, EnLive(energy_coordinators, entities', setup', tasks))
    /\ logged' = NoRecord
    /\ UNCHANGED <<remote, boards_data, boards_ok, known_serials,
                   switchboard_coordinators, energy_coordinators, registry, tasks, sw,
                   api, epoll, view>>

\* lines 208-211: async_unload_platforms has returned True, the entry's data is
\* popped from hass.data and the host removes the discovery listener. The maps
\* live on in the passes that took them at line 141.
UnloadEntryReturn ==
    /\ setup.pc = "unloading"
    /\ setup' = [setup EXCEPT !.pc = "unloaded"]
    /\ logged' = NoRecord
    /\ UNCHANGED <<remote, boards_data, boards_ok, known_serials, sb, en,
                   switchboard_coordinators, energy_coordinators, registry, loaded,
                   entities, tasks, sw, api, epoll, view>>

\* ------------------------------------------------------------------ scheduled polls
\* SwitchboardDataCoordinator._async_update_data on a scheduled tick: the host
\* publishes the result, or keeps the data and marks the coordinator failed
Poll(c, ok) ==
    /\ sb[c] # NoObj
    /\ UNCHANGED <<view, api, epoll>>
    /\ logged' = NoRecord
    /\ HasListeners(c)
    /\ sb' = [sb EXCEPT ![c] = IF ok
                               THEN Published(sb[c], FetchSwitchboard(remote, sb[c].serial))
                               ELSE PollFailed(sb[c])]
    /\ sb'[c] # sb[c]
    /\ UNCHANGED <<remote, boards_data, boards_ok, known_serials, en,
                   switchboard_coordinators, energy_coordinators, registry, loaded,
                   entities, setup, tasks, sw>>

\* the cloud's view of a subcircuit changes (somebody operates it elsewhere)
RemoteStandby(s) ==
    /\ setup.pc = "ready"
    /\ UNCHANGED <<view, api, epoll>>
    /\ logged' = NoRecord
    /\ remote[s].exists
    /\ remote' = [remote EXCEPT ![s].standby = ~remote[s].standby]
    /\ UNCHANGED <<boards_data, boards_ok, known_serials, sb, en,
                   switchboard_coordinators, energy_coordinators, registry, loaded,
                   entities, setup, tasks, sw>>

\* the labels a subcircuit's config takes at the remote end
Labels == {"lights", "spare"}

\* the subcircuit is given another label at the remote end (its owner renames
\* the circuit in the vendor's application)
RemoteLabel(s, l) ==
    /\ remote[s].exists
    /\ remote[s].label # l
    /\ remote' = [remote EXCEPT ![s].label = l]
    /\ logged' = NoRecord
    /\ UNCHANGED <<boards_data, boards_ok, known_serials, sb, en,
                   switchboard_coordinators, energy_coordinators, registry, loaded,
                   entities, setup, tasks, sw, api, epoll, view>>

\* ------------------------------------------------------------------ energy poll
\* the energy coordinator has listeners: the host polls it on schedule
HasEnergyListeners(c) == \E x \in entities : x.cls \notin LiveClasses /\ x.coord = c

\* the board imports energy
RemoteEnergy(s) ==
    /\ remote[s].exists
    /\ remote[s].kwh < MaxKwh
    /\ remote' = [remote EXCEPT ![s].kwh = remote[s].kwh + 1]
    /\ logged' = NoRecord
    /\ UNCHANGED <<boards_data, boards_ok, known_serials, sb, en,
                   switchboard_coordinators, energy_coordinators, registry, loaded,
                   entities, setup, tasks, sw, api, epoll, view>>

\* EnergyStatsCoordinator._async_update_data on a scheduled tick, lines 121-133:
\* the two start times are computed and the query for today is awaited
EnergyPollStart(c) ==
    /\ epoll.pc \in {"idle", "done", "failed"}
    /\ en[c] # NoObj
    /\ HasEnergyListeners(c)
    /\ epoll' = [pc |-> "today", c |-> c,
                 queries |-> <<[serial |-> en[c].serial, window |-> "today"]>>,
                 today_usage |-> None]
    /\ logged' = NoRecord
    /\ UNCHANGED <<remote, boards_data, boards_ok, known_serials, sb, en,
                   switchboard_coordinators, energy_coordinators, registry, loaded,
                   entities, setup, tasks, sw, api, view>>

\* lines 130-139: the query for today returns and the query for the month is
\* awaited, or it raises and the host marks the coordinator failed
EnergyTodayReturn(ok) ==
    /\ epoll.pc = "today"
    /\ IF ok
       THEN /\ epoll' = [epoll EXCEPT
                            !.pc = "month",
                            !.queries = Append(epoll.queries,
                                               [serial |-> en[epoll.c].serial,
                                                window |-> "month"]),
                            !.today_usage = EnergyUsage(remote, en[epoll.c].serial, "today")]
            /\ en' = en
       ELSE /\ epoll' = [epoll EXCEPT !.pc = "failed"]
            /\ en' = [en EXCEPT ![epoll.c] = PollFailed(en[epoll.c])]
    /\ logged' = NoRecord
    /\ UNCHANGED <<remote, boards_data, boards_ok, known_serials, sb,
                   switchboard_coordinators, energy_coordinators, registry, loaded,
                   entities, setup, tasks, sw, api, view>>

\* lines 136-153: the query for the month returns and the host publishes the
\* dict built from both, or it raises and the host marks the coordinator failed
EnergyMonthReturn(ok) ==
    /\ epoll.pc = "month"
    /\ epoll' = [epoll EXCEPT !.pc = IF ok THEN "done" ELSE "failed"]
    /\ en' = [en EXCEPT ![epoll.c] =
                 IF ok
                 THEN Published(en[epoll.c],
                                EnergyResult(epoll.today_usage,
                                             EnergyUsage(remote, en[epoll.c].serial,
                                                         "month")))
                 ELSE PollFailed(en[epoll.c])]
    /\ logged' = NoRecord
    /\ UNCHANGED <<remote, boards_data, boards_ok, known_serials, sb,
                   switchboard_coordinators, energy_coordinators, registry, loaded,
                   entities, setup, tasks, sw, api, view>>

\* ------------------------------------------------------------------ circuit switch
\* async_turn_on (standby False) / async_turn_off (standby True) up to the await
\* of api.set_subcircuit_standby
StandbyArgSame(turn_on) == turn_on

StandbyArg(turn_on) == ~turn_on

SwitchCall(e, turn_on) ==
    /\ sw.pc \notin {"mutating", "refreshing"}
    /\ UNCHANGED <<view, api, epoll>>
    /\ logged' = NoRecord
    /\ e \in entities
    /\ e.cls = "BasisCircuitSwitch"
    /\ sw' = [pc |-> "mutating", ent |-> e, standby |-> StandbyArg(turn_on)]
    /\ UNCHANGED <<remote, boards_data, boards_ok, known_serials, sb, en,
                   switchboard_coordinators, energy_coordinators, registry, loaded,
                   entities, setup, tasks>>

\* the mutation returns and coordinator.async_request_refresh() is awaited, or
\* the mutation raises and the error propagates
MutationReturn(ok) ==
    /\ sw.pc = "mutating"
    /\ UNCHANGED <<view, api, epoll>>
    /\ logged' = NoRecord
    /\ IF ok
       THEN /\ remote' = SetSubcircuitStandby(remote, sw.ent.serial, sw.ent.sub, sw.standby)
            /\ sw' = [sw EXCEPT !.pc = "refreshing"]
            /\ sb' = sb
       ELSE /\ remote' = remote
            /\ sw' = [sw EXCEPT !.pc = "failed"]
            /\ sb' = Collect(sb, SbLive(switchboard_coordinators, entities, setup, tasks, sw'))
    /\ UNCHANGED <<boards_data, boards_ok, known_serials, en, switchboard_coordinators,
                   energy_coordinators, registry, loaded, entities, setup, tasks>>

\* the requested refresh of the entity's coordinator ends: published, or failed
RefreshReturn(ok) ==
    /\ sw.pc = "refreshing"
    /\ UNCHANGED <<view, api, epoll>>
    /\ logged' = NoRecord
    /\ sw' = [sw EXCEPT !.pc = IF ok THEN "done" ELSE "refresh_failed"]
    /\ sb' = Collect([sb EXCEPT ![sw.ent.coord] =
                        IF ok
                        THEN Published(sb[sw.ent.coord],
                                       FetchSwitchboard(remote, sw.ent.serial))
                        ELSE PollFailed(sb[sw.ent.coord])],
                     SbLive(switchboard_coordinators, entities, setup, tasks, sw'))
    /\ UNCHANGED <<remote, boards_data, boards_ok, known_serials, en,
                   switchboard_coordinators, energy_coordinators, registry, loaded,
                   entities, setup, tasks>>

\* ------------------------------------------------------------------ specification
\* setup, discovery and reconciliation, the passes overlapping at their awaits.
\* A failed tick starts a pass on the list as it is, as a tick that repeats the
\* list does: here every tick is of the second kind.
NextBoards ==
    \/ \E ok \in BOOLEAN, list \in Lists(MaxBoards) : SetupFirstRefresh(ok, list)
    \/ \E ok \in BOOLEAN : SetupFetchSb(ok)
    \/ \E ok \in BOOLEAN : SetupFetchEnToday(ok)
    \/ \E ok \in BOOLEAN : SetupFetchEn(ok)
    \/ SetupForward
    \/ SetupRetry
    \/ \E list \in Lists(MaxBoards) : DiscoveryTick(list)
    \/ \E t \in TaskIds : Start(t)
    \/ \E t \in TaskIds : Unloaded(t)
    \/ \E t \in TaskIds, ok \in BOOLEAN : FetchSb(t, ok)
    \/ \E t \in TaskIds, ok \in BOOLEAN : FetchEnToday(t, ok)
    \/ \E t \in TaskIds, ok \in BOOLEAN : FetchEn(t, ok)
    \/ \E t \in TaskIds : Forward(t)

Spec == Init /\ [][NextBoards]_vars

\* no reconciliation pass is alive
Quiet == \A t \in TaskIds : tasks[t].pc = "free"

\* the same, with every discovery tick falling between two passes: the passes
\* run one after the other ("in a row")
NextInARow ==
    \/ \E ok \in BOOLEAN, list \in Lists(MaxBoards) : SetupFirstRefresh(ok, list)
    \/ \E ok \in BOOLEAN : SetupFetchSb(ok)
    \/ \E ok \in BOOLEAN : SetupFetchEnToday(ok)
    \/ \E ok \in BOOLEAN : SetupFetchEn(ok)
    \/ SetupForward
    \/ SetupRetry
    \/ \E list \in Lists(MaxBoards) : Quiet /\ DiscoveryTick(list)
    \/ Quiet /\ DiscoveryFail
    \/ \E t \in TaskIds : Start(t)
    \/ \E t \in TaskIds : Unloaded(t)
    \/ \E t \in TaskIds, ok \in BOOLEAN : FetchSb(t, ok)
    \/ \E t \in TaskIds, ok \in BOOLEAN : FetchEnToday(t, ok)
    \/ \E t \in TaskIds, ok \in BOOLEAN : FetchEn(t, ok)
    \/ \E t \in TaskIds : Forward(t)

SpecInARow == Init /\ [][NextInARow]_vars

\* a step of the setup or of a pass: the event loop runs every task, and every
\* await returns or raises
TaskStep ==
    \/ \E ok \in BOOLEAN, list \in Lists(MaxBoards) : SetupFirstRefresh(ok, list)
    \/ \E ok \in BOOLEAN : SetupFetchSb(ok)
    \/ \E ok \in BOOLEAN : SetupFetchEnToday(ok)
    \/ \E ok \in BOOLEAN : SetupFetchEn(ok)
    \/ SetupForward
    \/ SetupRetry
    \/ \E t \in TaskIds : Start(t)
    \/ \E t \in TaskIds : Unloaded(t)
    \/ \E t \in TaskIds, ok \in BOOLEAN : FetchSb(t, ok)
    \/ \E t \in TaskIds, ok \in BOOLEAN : FetchEnToday(t, ok)
    \/ \E t \in TaskIds, ok \in BOOLEAN : FetchEn(t, ok)
    \/ \E t \in TaskIds : Forward(t)

\* a scheduled discovery tick, whatever its outcome: the host schedules the next
\* one after each
ScheduledTick ==
    \/ \E list \in Lists(MaxBoards) : Quiet /\ DiscoveryTick(list)
    \/ Quiet /\ DiscoveryFail

\* the passes in a row, with the tasks run and the ticks scheduled for ever
SpecInARowLive ==
    Init /\ [][NextInARow]_vars /\ WF_vars(TaskStep) /\ WF_vars(ScheduledTick)

\* setup, then the scheduled polls and the circuit switch of the boards set up
NextPanel ==
    \/ \E ok \in BOOLEAN, list \in Lists(MaxBoards) : SetupFirstRefresh(ok, list)
    \/ \E ok \in BOOLEAN : SetupFetchSb(ok)
    \/ \E ok \in BOOLEAN : SetupFetchEnToday(ok)
    \/ \E ok \in BOOLEAN : SetupFetchEn(ok)
    \/ SetupForward
    \/ SetupRetry
    \/ \E c \in CoordIds, ok \in BOOLEAN : Poll(c, ok)
    \/ \E s \in Serials : RemoteStandby(s)
    \/ \E e \in entities, turn_on \in BOOLEAN : SwitchCall(e, turn_on)
    \/ \E ok \in BOOLEAN : MutationReturn(ok)
    \/ \E ok \in BOOLEAN : RefreshReturn(ok)

SpecPanel == Init /\ [][NextPanel]_vars

\* the same, with the labels of the subcircuits changing at the remote end
NextLabels ==
    \/ \E ok \in BOOLEAN, list \in Lists(MaxBoards) : SetupFirstRefresh(ok, list)
    \/ \E ok \in BOOLEAN : SetupFetchSb(ok)
    \/ \E ok \in BOOLEAN : SetupFetchEnToday(ok)
    \/ \E ok \in BOOLEAN : SetupFetchEn(ok)
    \/ SetupForward
    \/ SetupRetry
    \/ \E c \in CoordIds, ok \in BOOLEAN : Poll(c, ok)
    \/ \E s \in Serials : RemoteStandby(s)
    \/ \E s \in Serials, l \in Labels : RemoteLabel(s, l)
    \/ \E e \in entities, turn_on \in BOOLEAN : SwitchCall(e, turn_on)
    \/ \E ok \in BOOLEAN : MutationReturn(ok)
    \/ \E ok \in BOOLEAN : RefreshReturn(ok)

SpecLabels == Init /\ [][NextLabels]_vars

\* the property getters on every shape of snapshot
NextGetters == ReadProperties

SpecGetters == InitGetters /\ [][NextGetters]_vars

\* the passes in a row, and the host unloading the entry
NextTeardown ==
    \/ \E ok \in BOOLEAN, list \in Lists(MaxBoards) : SetupFirstRefresh(ok, list)
    \/ \E ok \in BOOLEAN : SetupFetchSb(ok)
    \/ \E ok \in BOOLEAN : SetupFetchEnToday(ok)
    \/ \E ok \in BOOLEAN : SetupFetchEn(ok)
    \/ SetupForward
    \/ SetupRetry
    \/ \E list \in Lists(MaxBoards) : Quiet /\ DiscoveryTick(list)
    \/ Quiet /\ DiscoveryFail
    \/ \E t \in TaskIds : Start(t)
    \/ \E t \in TaskIds : Unloaded(t)
    \/ \E t \in TaskIds, ok \in BOOLEAN : FetchSb(t, ok)
    \/ \E t \in TaskIds, ok \in BOOLEAN : FetchEnToday(t, ok)
    \/ \E t \in TaskIds, ok \in BOOLEAN : FetchEn(t, ok)
    \/ \E t \in TaskIds : Forward(t)
    \/ UnloadEntryCall
    \/ UnloadEntryReturn

SpecTeardown == Init /\ [][NextTeardown]_vars

\* the calls of the API client against the remote end
NextApi ==
    \/ \E call \in ApiCalls : ApiCall(call)
    \/ \E ok \in BOOLEAN : TokenReturn(ok)
    \/ \E ok \in BOOLEAN : RequestReturn(ok, Response(remote, api.call))

SpecApi == Init /\ [][NextApi]_vars

\* the discovery call against every shape of response
NextDiscover ==
    \/ \E call \in ApiCalls : call.op = "get_available_switchboards" /\ ApiCall(call)
    \/ \E ok \in BOOLEAN : TokenReturn(ok)
    \/ \E ok \in BOOLEAN, response \in Responses : RequestReturn(ok, response)

SpecDiscover == Init /\ [][NextDiscover]_vars

\* setup, then the scheduled polls of the energy coordinators
NextEnergy ==
    \/ \E ok \in BOOLEAN, list \in Lists(MaxBoards) : SetupFirstRefresh(ok, list)
    \/ \E ok \in BOOLEAN : SetupFetchSb(ok)
    \/ \E ok \in BOOLEAN : SetupFetchEnToday(ok)
    \/ \E ok \in BOOLEAN : SetupFetchEn(ok)
    \/ SetupForward
    \/ SetupRetry
    \/ \E s \in Serials : RemoteEnergy(s)
    \/ \E c \in CoordIds : EnergyPollStart(c)
    \/ \E ok \in BOOLEAN : EnergyTodayReturn(ok)
    \/ \E ok \in BOOLEAN : EnergyMonthReturn(ok)

SpecEnergy == Init /\ [][NextEnergy]_vars

\* the device registration on every shape of snapshot
InitRegistration == Constructed /\ view \in RegistrationViews

NextRegistration == RegisterRun

SpecRegistration == InitRegistration /\ [][NextRegistration]_vars

\* ------------------------------------------------------------------ properties
\* D, R and P of a reconciliation pass, read from the state it starts in
Discovered == Range(switchboard_serials(boards_data))

Registered == {s \in Serials : registry[s] > 0}

Pollers == {s \in Serials : switchboard_coordinators[s] # 0}

\* a pass that has called async_unload_platforms and has not ended
InPass(t) == tasks[t].pc \in {"unload", "fetch_sb", "fetch_today", "fetch_en", "forward"}

\* a pass between its teardown step and its rebuild step
Rebuilding(t) == tasks[t].pc \in {"fetch_sb", "fetch_today", "fetch_en", "forward"}

\* a pass started now would take the no-op branch
WouldBeNoOp ==
    /\ RemovedSerials(boards_data, registry) = {}
    /\ NewSerials(boards_data, switchboard_coordinators) = {}

\* C1: a pass computes removed = R - D and added = D - P, and it returns at once,
\* changing nothing (no unload, no poller, no device, no setup), iff both are empty
C1_SetsAndNoOp ==
    [][\A t \in TaskIds : Start(t) =>
          /\ (tasks'[t].pc = "free") <=> (Registered \ Discovered = {} /\ Discovered \ Pollers = {})
          /\ tasks'[t].pc = "free" =>
                UNCHANGED <<sb, en, switchboard_coordinators, energy_coordinators,
                            registry, loaded, entities>>
          /\ tasks'[t].pc # "free" =>
                /\ tasks'[t].pc = "unload"
                /\ tasks'[t].removed = Registered \ Discovered
                /\ tasks'[t].new = Discovered \ Pollers]_vars

\* C1 witness: a pass found a board to add and a board to remove and awaits the
\* unload
C1_Witness ==
    \E t \in TaskIds : /\ tasks[t].pc = "unload"
                       /\ tasks[t].new = {"B"}
                       /\ tasks[t].removed = {"A"}

\* a step in which pass t ends, however it ends
PassEnds(t) == InPass(t) /\ tasks'[t].pc = "free"

\* no other pass is alive and the discovery result is the one pass t read
RunAlone(t) ==
    /\ \A u \in TaskIds \ {t} : tasks[u].pc = "free"
    /\ tasks[t].cur = Discovered

\* C2: after a pass that ran to its end, alone on an unchanged discovery result,
\* a second pass takes the no-op branch: no teardown and no rebuild
C2_Idempotent ==
    [][\A t \in TaskIds : (Forward(t) /\ RunAlone(t)) => WouldBeNoOp']_vars

\* the live-state coordinators of a serial that are in use: held in the map, or
\* bound to an entity
LiveInUse(s) ==
    {c \in CoordIds : sb[c] # NoObj /\ sb[c].serial = s
                      /\ (switchboard_coordinators[s] = c \/ HasListeners(c))}

\* the energy coordinators of a serial that are in use
EnergyInUse(s) ==
    {c \in CoordIds : en[c] # NoObj /\ en[c].serial = s
                      /\ (energy_coordinators[s] = c
                          \/ \E x \in entities : x.cls \notin LiveClasses /\ x.coord = c)}

\* C3: no serial has two device records, two live-state pollers or two energy
\* pollers in use
C3_OnePerSerial ==
    \A s \in Serials :
        /\ registry[s] <= 1
        /\ Cardinality(LiveInUse(s)) <= 1
        /\ Cardinality(EnergyInUse(s)) <= 1

\* the coordinator the maps hold for the board and the class of an entity
MapEntry(x) ==
    IF x.cls \in LiveClasses THEN switchboard_coordinators[x.serial]
    ELSE energy_coordinators[x.serial]

\* C4: every entity is bound to the coordinator the map holds for its board, its
\* board has a device record, and no entity exists while a pass is between its
\* teardown and its rebuild
C4_NoHalfMigrated ==
    /\ \A x \in entities : MapEntry(x) = x.coord /\ registry[x.serial] > 0
    /\ \A t \in TaskIds : Rebuilding(t) => entities = {}

\* a step of pass t
StepOf(t) == tasks'[t] # tasks[t] /\ InPass(t)

\* the boards outside S keep their coordinators, with their data, and their
\* device records
Frame(S) ==
    \A s \in Serials \ S :
        /\ switchboard_coordinators'[s] = switchboard_coordinators[s]
        /\ energy_coordinators'[s] = energy_coordinators[s]
        /\ switchboard_coordinators[s] # 0 =>
               sb'[switchboard_coordinators[s]] = sb[switchboard_coordinators[s]]
        /\ energy_coordinators[s] # 0 =>
               en'[energy_coordinators[s]] = en[energy_coordinators[s]]
        /\ registry'[s] >= registry[s]

\* C5: a pass with boards to add and none to remove creates coordinators only for
\* the added boards, leaves the other boards' coordinators and device records as
\* they are, and has a device record for every discovered board when it has run
\* to its end
C5_AddedOnly ==
    [][\A t \in TaskIds : (StepOf(t) /\ tasks[t].removed = {}) =>
          /\ Frame(tasks[t].new)
          /\ Forward(t) => tasks[t].cur \subseteq registry_serials(registry')]_vars

\* the entities of board s are those the platforms build from the maps
Rebuilt(s) ==
    {x \in entities' : x.serial = s}
        = {x \in BuildEntities(switchboard_coordinators', energy_coordinators', sb') :
              x.serial = s}

\* C6: a pass with boards to remove leaves every board it neither removes nor
\* adds with its coordinators and its device record, and when it ends the removed
\* boards have no coordinator and no device record and the surviving boards have
\* their entities again
C6_RemovedGone ==
    [][\A t \in TaskIds : (StepOf(t) /\ tasks[t].removed # {}) =>
          /\ Frame(tasks[t].new \cup tasks[t].removed)
          /\ PassEnds(t) =>
                /\ \A s \in tasks[t].removed :
                      /\ switchboard_coordinators'[s] = 0
                      /\ energy_coordinators'[s] = 0
                      /\ registry'[s] = 0
                /\ \A s \in Serials \ (tasks[t].new \cup tasks[t].removed) :
                      Rebuilt(s)]_vars

\* pass t ends because the initial fetch of a coordinator of its board failed
FetchFailed(t) ==
    /\ tasks[t].pc \in {"fetch_sb", "fetch_today", "fetch_en"}
    /\ tasks'[t].pc = "free"

\* C7: the board whose initial fetch failed is in the added set of the next pass
\* that finds it discovered
C7_Retried ==
    [][\A t \in TaskIds : FetchFailed(t) =>
          (tasks[t].serial \in Discovered' =>
              tasks[t].serial \in NewSerials(boards_data', switchboard_coordinators'))]_vars

\* pass t registers the devices (line 199)
Registers(t) == FetchEn(t, TRUE) /\ tasks'[t].pc = "forward"

\* C8: at most one pass is between its teardown and its rebuild, and the
\* discovered set a pass registers devices for is the one it read at its start
C8_Uninterrupted ==
    /\ [](Cardinality({t \in TaskIds : Rebuilding(t)}) <= 1)
    /\ [][\A t \in TaskIds : Registers(t) => Discovered = tasks[t].cur]_vars

\* the entities bound to live-state coordinator c
BoundTo(c) == {x \in entities : x.cls \in LiveClasses /\ x.coord = c}

\* C9: while a live-state coordinator is failed, after the failed poll and until
\* a poll succeeds, every value getter of its entities returns what it returned
\* before and every one of them is unavailable
C9_FailedPollKeepsData ==
    [][\A c \in CoordIds :
          (sb[c] # NoObj /\ sb'[c] # NoObj /\ ~sb'[c].ok) =>
              \A x \in BoundTo(c) :
                  /\ ValueOf(x, sb'[c]) = ValueOf(x, sb[c])
                  /\ ~AvailableOf(x, sb'[c])]_vars

\* C9 witness: a scheduled poll of a board with entities has failed after the
\* remote state changed; the coordinator still holds the snapshot from before
C9_Witness ==
    \E c \in CoordIds :
        /\ sb[c] # NoObj
        /\ BoundTo(c) # {}
        /\ ~sb[c].ok
        /\ Truthy(sb[c].data)
        /\ sb[c].data # FetchSwitchboard(remote, sb[c].serial)
        /\ \E x \in BoundTo(c) : x.cls = "BasisCircuitSwitch" /\ SwitchIsOn(sb[c], x.sub) = [v |-> TRUE]

\* the switch entity of the control action in flight
SwitchObj == sb[sw.ent.coord]

\* C10: turn_on asks for standby false and turn_off for standby true, for the
\* entity's own pair; the refresh is requested only when the mutation has
\* returned; when the refresh has published, is_on is the new state of the
\* subcircuit; a failed mutation requests no refresh and changes nothing
C10_MutateThenRefresh ==
    [][/\ \A x \in entities :
             /\ SwitchCall(x, TRUE) => sw'.ent = x /\ sw'.standby = FALSE
             /\ SwitchCall(x, FALSE) => sw'.ent = x /\ sw'.standby = TRUE
       /\ (sw'.pc = "refreshing" /\ sw.pc # "refreshing") =>
             /\ sw.pc = "mutating"
             /\ remote'[sw.ent.serial].standby = sw.standby
             /\ sw'.ent = sw.ent
       /\ (sw.pc = "refreshing" /\ sw'.pc = "done") =>
             SwitchIsOn(sb'[sw.ent.coord], sw.ent.sub) =
                 [v |-> ~remote[sw.ent.serial].standby]
       /\ (sw.pc = "mutating" /\ sw'.pc = "failed") =>
             /\ remote' = remote
             /\ sb'[sw.ent.coord] = SwitchObj
       /\ sw.pc = "failed" => sw'.pc # "refreshing"]_vars

\* C10 witness: turn_off has run to the end of its refresh on a circuit that was
\* on, and the switch of that circuit reads off
C10_Witness ==
    /\ sw.pc = "done"
    /\ sw.standby
    /\ sw.ent \in entities
    /\ remote[sw.ent.serial].standby
    /\ SwitchIsOn(SwitchObj, sw.ent.sub) = [v |-> FALSE]

\* the label the entity's subcircuit has in the snapshot its coordinator holds
\* ("-" when the snapshot has no such subcircuit)
LabelNow(x) ==
    LET subcircuit == GetSubcircuit(sb[x.coord].data, x.sub)
    IN  IF subcircuit # NoneData THEN subcircuit.label ELSE "-"

\* C11: no switch entity exists for a subcircuit whose label is "spare" in the
\* current snapshot, and no standby mutation is in flight for such a subcircuit
C11_NoSpareSwitch ==
    /\ \A x \in entities : x.cls = "BasisCircuitSwitch" => LabelNow(x) # "spare"
    /\ sw.pc = "mutating" => LabelNow(sw.ent) # "spare"

\* C12: no property getter raises, whatever the shape of the snapshot
C12_NullableSafe ==
    view.pc = "read" => \A g \in DOMAIN view.out : view.out[g] # Raises

\* pass t goes on to set the platforms up again (line 202)
GoesOnToForward(t) == StepOf(t) /\ tasks'[t].pc = "forward"

\* C13: every pass that is not a no-op has registered the devices of the full
\* discovered board set when it goes on to set the platforms up, whether it added
\* boards, removed boards or both: registering them then would add no record
C13_ReRegisters ==
    [][\A t \in TaskIds : GoesOnToForward(t) =>
          registry' = RegisterDevices(boards_data', switchboard_coordinators', sb',
                                      registry')]_vars

\* C14: once async_unload_entry has succeeded no pass creates a poller, registers
\* or removes a device or sets up the platforms, and no new pass is started
C14_Abandoned ==
    [][setup.pc = "unloaded" =>
          /\ registry' = registry
          /\ \A c \in CoordIds : /\ (sb[c] = NoObj => sb'[c] = NoObj)
                                  /\ (en[c] = NoObj => en'[c] = NoObj)
          /\ loaded' = loaded
          /\ entities' = entities
          /\ \A t \in TaskIds : tasks'[t].pc = "start" => tasks[t].pc = "start"]_vars

\* C15: a call asks for the token once and sends its one request only when it
\* has the token; with no token it sends none, and a failed request is not sent
\* again: the call ends with the error
C15_OneTokenOneRequest ==
    /\ [](api.pc # "idle" =>
            /\ api.tokens = 1
            /\ api.pc = "token" => api.requests = 0
            /\ api.pc \in {"request", "returned"} => api.requests = 1
            /\ api.pc = "raised" =>
                   api.requests = (IF api.error = "token" THEN 0 ELSE 1))
    /\ [][/\ (api.pc = "token" /\ api' # api) =>
                 api'.pc \in {"request", "raised"} /\ api'.call = api.call
          /\ (api.pc = "request" /\ api' # api) =>
                 api'.pc \in {"returned", "raised"} /\ api'.call = api.call
          /\ (api.pc \in {"returned", "raised"} /\ api' # api) =>
                 api'.pc = "token" /\ api'.requests = 0]_vars

\* C15 witness: the request of a standby mutation has failed, once
C15_Witness ==
    /\ api.pc = "raised"
    /\ api.error = "request"
    /\ api.call.op = "set_subcircuit_standby"
    /\ api.requests = 1

\* the coordinator has completed a fetch: it holds published data
Fetched(obj) == obj # NoObj /\ obj.data # NoneData

\* C16: every coordinator in the live-state map or in the energy map, and every
\* coordinator an entity is bound to, has completed a successful fetch
C16_FetchedBeforeVisible ==
    /\ \A s \in Serials :
          /\ switchboard_coordinators[s] # 0 => Fetched(sb[switchboard_coordinators[s]])
          /\ energy_coordinators[s] # 0 => Fetched(en[energy_coordinators[s]])
    /\ \A x \in entities :
          IF x.cls \in LiveClasses THEN Fetched(sb[x.coord]) ELSE Fetched(en[x.coord])

\* C16 witness: a pass has put the live-state coordinator of the board it adds
\* in the map, with the snapshot of its first refresh, and awaits the first
\* refresh of the energy coordinator, which is in no map yet
C16_Witness ==
    \E t \in TaskIds :
        /\ tasks[t].pc = "fetch_en"
        /\ switchboard_coordinators[tasks[t].serial] # 0
        /\ Truthy(sb[switchboard_coordinators[tasks[t].serial]].data)
        /\ energy_coordinators[tasks[t].serial] = 0
        /\ en[tasks[t].e].data = NoneData

\* the energy coordinator of the poll in flight
PollObj == en[epoll.c]

\* C17: an energy poll asks for its own board's "today" window and then for its
\* "month" window and for nothing else; what it publishes has the four fields,
\* "today" from its first answer and "month" from its second; a poll of which a
\* query fails publishes nothing and the coordinator keeps its data whole. The
\* first refresh of setup is such a poll: its result is built from its own two
\* answers, and a failed query of it publishes nothing
C17_TwoWindows ==
    [][/\ (epoll'.pc = "today" /\ epoll' # epoll) =>
             /\ epoll'.queries = <<[serial |-> en[epoll'.c].serial, window |-> "today"]>>
             /\ en' = en
       /\ (epoll.pc = "today" /\ epoll'.pc = "month") =>
             /\ epoll'.queries = <<[serial |-> PollObj.serial, window |-> "today"],
                                   [serial |-> PollObj.serial, window |-> "month"]>>
             /\ epoll'.today_usage = EnergyUsage(remote, PollObj.serial, "today")
             /\ en' = en
       /\ (epoll.pc = "month" /\ epoll'.pc = "done") =>
             /\ epoll'.queries = epoll.queries
             /\ en'[epoll.c].ok
             /\ en'[epoll.c].data =
                   [today |-> [import_kwh |-> epoll.today_usage.importKwh,
                               export_kwh |-> epoll.today_usage.exportKwh],
                    month |-> [import_kwh |->
                                   EnergyUsage(remote, PollObj.serial, "month").importKwh,
                               export_kwh |->
                                   EnergyUsage(remote, PollObj.serial, "month").exportKwh]]
       /\ (epoll.pc \in {"today", "month"} /\ epoll'.pc = "failed") =>
             /\ en'[epoll.c].data = PollObj.data
             /\ ~en'[epoll.c].ok
       /\ (setup.pc = "fetch_today" /\ setup'.pc = "fetch_en") =>
             /\ setup'.today_usage = EnergyUsage(remote, setup.serial, "today")
             /\ en' = en
       /\ (setup.pc = "fetch_en" /\ setup'.pc \in {"fetch_sb", "forward"}) =>
             /\ en'[setup.e].ok
             /\ en'[setup.e].data =
                   [today |-> [import_kwh |-> setup.today_usage.importKwh,
                               export_kwh |-> setup.today_usage.exportKwh],
                    month |-> [import_kwh |->
                                   EnergyUsage(remote, setup.serial, "month").importKwh,
                               export_kwh |->
                                   EnergyUsage(remote, setup.serial, "month").exportKwh]]
       /\ (setup.pc \in {"fetch_today", "fetch_en"} /\ setup'.pc = "failed") =>
             \A c \in CoordIds : en'[c] = en[c] \/ en'[c] = NoObj]_vars

\* C17 witness: a poll has published while the board imported energy between
\* its two queries, after an earlier result was published
C17_Witness ==
    /\ epoll.pc = "done"
    /\ PollObj.data.today.import_kwh = 2
    /\ PollObj.data.month.import_kwh = 4

RECURSIVE BoardsOf(_)
\* the boards of the sites of a response in response order, each with its site
BoardsOf(sites) ==
    IF sites = << >> THEN << >>
    ELSE [i \in 1..Len(Head(sites).boards) |->
              [site |-> Head(sites), board |-> Head(sites).boards[i]]]
         \o BoardsOf(Tail(sites))

\* C18: the discovery fails on its response only when a board lacks its serial;
\* otherwise it returns one record per board of every site in response order,
\* with the board's serial and its site's id, connected False when connectivity
\* or connected is absent, and no record for a site without switchboards or a
\* response without the sites container
C18_DefaultsMissing ==
    (api.pc # "idle" /\ api.call.op = "get_available_switchboards") =>
        /\ (api.pc = "raised" /\ api.error = "response") =>
              \E i \in 1..Len(BoardsOf(api.response.items)) :
                  BoardsOf(api.response.items)[i].board.serial = "absent"
        /\ api.pc = "returned" =>
              /\ Len(api.result) = Len(BoardsOf(api.response.items))
              /\ \A i \in 1..Len(api.result) :
                    LET of == BoardsOf(api.response.items)[i]
                    IN  /\ api.result[i].serial = of.board.serial
                        /\ api.result[i].site_id = SiteId(of.site)
                        /\ ("absent" \in {of.board.connectivity.connectivity,
                                           of.board.connectivity.connected}) =>
                               api.result[i].connected = "False"

\* C19: a successful discovery tick logs the current serials that were not known,
\* makes the known set the current serials and publishes the whole list; a failed
\* tick leaves the known set and the published list as they were and logs
\* nothing; the sets a reconciliation pass computes are the registry's serials
\* less the published ones and the published ones less the coordinator map's,
\* whatever the known set
C19_KnownSetOnlyLogs ==
    [][/\ (setup.pc # "failed"
            /\ (known_serials' # known_serials \/ boards_data' # boards_data
                   \/ logged' # NoRecord)) =>
              /\ boards_ok'
              /\ boards_data' # NoneData
              /\ logged' = Range(boards_data'.boards) \ known_serials
              /\ known_serials' = Range(boards_data'.boards)
       /\ (boards_ok /\ ~boards_ok') =>
              /\ known_serials' = known_serials
              /\ boards_data' = boards_data
              /\ logged' = NoRecord
       /\ \A t \in TaskIds :
              (tasks[t].pc = "start" /\ tasks'[t].pc = "unload") =>
                  /\ tasks'[t].removed =
                        {s \in Serials : registry[s] # 0}
                            \ Range(switchboard_serials(boards_data))
                  /\ tasks'[t].new =
                        Range(switchboard_serials(boards_data))
                            \ {s \in Serials : switchboard_coordinators[s] # 0}]_vars

\* C19 witness: a tick after setup has logged board B alone, board A being known
\* already, and both are known now
C19_Witness ==
    /\ setup.pc = "ready"
    /\ logged = {"B"}
    /\ known_serials = {"A", "B"}
    /\ boards_data = [boards |-> <<"A", "B">>]

\* C20: the connectivity binary sensor is available in every state in which it
\* exists, whatever the connected flag and the outcome of the last poll
C20_ConnectivityAlwaysAvailable ==
    \A x \in entities :
        x.cls = "BasisConnectivitySensor" => AvailableOf(x, sb[x.coord]) = TRUE

\* pass t ends without error: it takes the no-op branch, or it returns from the
\* setup of the platforms
EndsClean(t) ==
    \/ tasks[t].pc = "start" /\ tasks'[t].pc = "free" /\ setup.pc # "unloaded"
    \/ tasks[t].pc = "forward" /\ tasks'[t].pc = "free"

\* the initial setup returns True
SetupEnds == setup.pc = "forward" /\ setup'.pc = "ready"

\* C21: when a pass has ended without error, the no-op branch included, and when
\* the initial setup has ended, the serials with a live-state poller are the
\* discovered serials
C21_PollersAreDiscovered ==
    [][((\E t \in TaskIds : EndsClean(t)) \/ SetupEnds) =>
          {s \in Serials : switchboard_coordinators'[s] # 0}
              = Range(switchboard_serials(boards_data'))]_vars

\* the serials of the energy poller map
EnergyPollers == {s \in Serials : energy_coordinators[s] # 0}

\* C22: whenever the entry is set up and no reconciliation pass is alive, also
\* after a pass that a failed initial fetch of the energy poller aborted, the
\* live-state poller map and the energy poller map hold the same serials
C22_PollersInPairs ==
    (setup.pc = "ready" /\ Quiet) => Pollers = EnergyPollers

\* C23: a pass that has unloaded the platforms leads to the platforms being set
\* up again
C23_SetUpAgain ==
    \A t \in TaskIds : (Rebuilding(t) /\ ~loaded) ~> loaded

\* C24: the registration does not raise, and every board with a coordinator and a
\* non-empty snapshot, whatever its shape, gets a device record: hardware version
\* "Unknown" when the subcircuit list is empty or absent or the first subcircuit
\* has no config or no version, model the default when absent or "unknown"
C24_RegistersEveryShape ==
    view.pc = "registered" =>
        /\ ~view.out.raised
        /\ \A s \in Serials :
              (view.of[s].coordinator = "obj" /\ view.of[s].data = "obj") =>
                  LET snap == view.of[s].snap
                      device == view.out.devices[s]
                  IN  /\ device.registered
                      /\ (snap.subcircuits \in {"absent", "empty"}
                             \/ "absent" \in {snap.config, snap.version}) =>
                            device.hw_version = "Unknown"
                      /\ snap.model \in {"absent", "unknown"} =>
                            device.model = DEFAULT_MODEL

\* pass t, which the notification of a failed discovery tick has triggered,
\* starts while the platforms are set up: the pass before it, if any, has run to
\* its end
StartsAfterFailedTick(t) ==
    /\ tasks[t].pc = "start"
    /\ tasks'[t] # tasks[t]
    /\ ~boards_ok
    /\ setup.pc = "ready"
    /\ loaded

\* C25: a failed discovery tick leaves the published list as it was, and the pass
\* its notification triggers, the pass before it having completed, finds nothing
\* to remove and nothing to add: it returns without unloading the platforms and
\* without removing a device or a poller
C25_FailedTickRemovesNothing ==
    [][/\ (boards_ok /\ ~boards_ok') => boards_data' = boards_data
       /\ \A t \in TaskIds : StartsAfterFailedTick(t) =>
              /\ tasks'[t].pc = "free"
              /\ UNCHANGED <<entities, loaded, registry, switchboard_coordinators,
                             energy_coordinators>>]_vars

====
